---------------------------- MODULE Spec2Model ----------------------------
(***************************************************************************)
(* Model of core/bin/zksync_api/src/bin/dev-ticker-server.rs: the dev      *)
(* ticker server (mock coinmarketcap / coingecko price API).               *)
(*                                                                         *)
(* Strings are sequences of one-character strings, so that                 *)
(* to_ascii_lowercase and the exact (case-sensitive) matches of the price  *)
(* tables are computed, not assumed.  A BigDecimal is the pair             *)
(* (int_val, scale) of the bigdecimal crate: its value is                  *)
(* int_val / 10^scale.  An f64 is an integer number of 1/F64Scale units.   *)
(***************************************************************************)
EXTENDS Integers, Sequences, FiniteSets, TLC

VARIABLES argv, mainPc, opts, scope, file, req

vars == <<argv, mainPc, opts, scope, file, req>>

---------------------------------------------------------------------------
(* Bounds of the model *)

\* Number of request slots (requests in flight at the same time).
NumRequests == 2

\* Largest number of entries of a catalog file.
MaxTokens == 2

\* Decimal digits the f64 -> BigDecimal conversion keeps (f64::DIGITS in
\* the library; reduced here).  An f64 carries one digit more.
JitterDigits == 2

---------------------------------------------------------------------------
(* Strings *)

UpperChars == <<"A","B","C","D","E","F","G","H","I","J","K","L","M","N","O","P","Q","R","S","T","U","V","W","X","Y","Z">>

LowerChars == <<"a","b","c","d","e","f","g","h","i","j","k","l","m","n","o","p","q","r","s","t","u","v","w","x","y","z">>

\* u8::to_ascii_lowercase: 'A'..'Z' map to 'a'..'z', everything else stays.
ToAsciiLowercaseChar(c) ==
    IF \E i \in 1..Len(UpperChars) : UpperChars[i] = c
    THEN LowerChars[CHOOSE i \in 1..Len(UpperChars) : UpperChars[i] = c]
    ELSE c

\* str::to_ascii_lowercase
ToAsciiLowercase(s) ==
    [i \in 1..Len(s) |-> ToAsciiLowercaseChar(s[i])]

\* The string literals of the source.
S_ETH == <<"E","T","H">>
S_wBTC == <<"w","B","T","C">>
S_BAT == <<"B","A","T">>
S_DAI == <<"D","A","I">>
S_tGLM == <<"t","G","L","M">>
S_GLM == <<"G","L","M">>
S_eth == <<"e","t","h">>
S_wbtc == <<"w","b","t","c">>
S_bat == <<"b","a","t">>
S_ethereum == <<"e","t","h","e","r","e","u","m">>
S_wrapped_bitcoin == <<"w","r","a","p","p","e","d","-","b","i","t","c","o","i","n">>
S_basic_attention_token == <<"b","a","s","i","c","-","a","t","t","e","n","t","i","o","n","-","t","o","k","e","n">>

---------------------------------------------------------------------------
(* BigDecimal and f64 *)

\* One f64 unit is 1/F64Scale.
F64Scale == 10 ^ (JitterDigits + 1)

\* The f64 literal num/10 (0.2, 0.9, 1.1).
F64Tenths(num) == (num * F64Scale) \div 10

\* BigDecimal::from(i32)
BigDecimalFrom(n) == [int_val |-> n, scale |-> 0]

\* Rounding of a decimal expansion to one digit less, ties to even.
RoundHalfEven(x) ==
    LET q == x \div 10
        r == x % 10
    IN  IF r < 5 THEN q
        ELSE IF r > 5 THEN q + 1
        ELSE IF q % 2 = 0 THEN q ELSE q + 1

\* BigDecimal::try_from(f64).unwrap(): the f64 is printed with the kept
\* number of digits (rounded) and the print is parsed.
BigDecimalTryFromF64(x) == [int_val |-> RoundHalfEven(x), scale |-> JitterDigits]

\* BigDecimal * BigDecimal: the digits multiply, the scales add.
BigDecimalMul(a, b) == [int_val |-> a.int_val * b.int_val, scale |-> a.scale + b.scale]

\* Numeric equality of BigDecimals (by cross-multiplication).
BigDecimalEq(a, b) == a.int_val * (10 ^ b.scale) = b.int_val * (10 ^ a.scale)

\* thread_rng().gen_range(0.9, 1.1): every f64 x with 0.9 <= x < 1.1.
GenRangeF64 == { x \in F64Tenths(9)..F64Tenths(11) : x < F64Tenths(11) }

\* thread_rng().gen_range(low, high) on integers: low <= x < high.
GenRange(low, high) == { x \in low..high : x < high }

---------------------------------------------------------------------------
(* The catalog file etc/tokens/localhost.json *)

\* A JSON value of an entry's field: a string, another type, or no field.
JsonString(s) == [kind |-> "string", str |-> s]

JsonNumber == [kind |-> "number", str |-> <<>>]

JsonAbsent == [kind |-> "absent", str |-> <<>>]

\* The file: missing, not a JSON array of objects, or an array of objects.
FileMissing == [kind |-> "missing", entries |-> <<>>]

FileMalformed == [kind |-> "malformed", entries |-> <<>>]

FileJson(entries) == [kind |-> "json", entries |-> entries]

\* value["symbol"].as_str().unwrap() succeeds: the key is there (Index on a
\* HashMap panics otherwise) and its value is a string.
IsStr(v) == v.kind = "string"

\* load_tokens returns (none of its unwraps and indexings panics).
LoadTokensOk(f) ==
    /\ f.kind # "missing"
    /\ f.kind # "malformed"
    /\ \A i \in 1..Len(f.entries) :
          IsStr(f.entries[i].symbol) /\ IsStr(f.entries[i].address)

\* A faulty variant of the id table: the match is made on the symbol as written.
TokenIdCaseSensitive(value) ==
    CASE value.symbol.str = S_eth -> S_ethereum
      [] value.symbol.str = S_wbtc -> S_wrapped_bitcoin
      [] value.symbol.str = S_bat -> S_basic_attention_token
      [] OTHER -> ToAsciiLowercase(value.symbol.str)

\* The id of an entry: the match of lines 106-111 on the lower-cased symbol.
TokenId(value) ==
    LET symbol == ToAsciiLowercase(value.symbol.str)
    IN  CASE symbol = S_eth -> S_ethereum
          [] symbol = S_wbtc -> S_wrapped_bitcoin
          [] symbol = S_bat -> S_basic_attention_token
          [] OTHER -> symbol

\* The closure of load_tokens' map: one TokenData per entry.
TokenData(value) ==
    LET symbol == ToAsciiLowercase(value.symbol.str)
        address == ToAsciiLowercase(value.address.str)
    IN  [id |-> TokenId(value),
         symbol |-> symbol,
         name |-> symbol,
         platforms |-> [ethereum |-> address]]

\* load_tokens(path), when it does not panic.
load_tokens(f) == [i \in 1..Len(f.entries) |-> TokenData(f.entries[i])]

---------------------------------------------------------------------------
(* Responses *)

NoPrice == [int_val |-> 0, scale |-> 0]

\* No response (yet).
NoResponse == [outcome |-> "none", status |-> 0, body |-> "none", symbol |-> <<>>, price |-> NoPrice, tokens |-> <<>>]

\* The handler panicked: the request gets no response.
Panicked == [outcome |-> "panic", status |-> 0, body |-> "none", symbol |-> <<>>, price |-> NoPrice, tokens |-> <<>>]

\* HttpResponse::InternalServerError().finish(): status 500, empty body.
InternalServerError == [outcome |-> "response", status |-> 500, body |-> "empty", symbol |-> <<>>, price |-> NoPrice, tokens |-> <<>>]

\* HttpResponse::Ok().json(...) of the three handlers.
OkQuote(symbol, price) == [outcome |-> "response", status |-> 200, body |-> "quote", symbol |-> symbol, price |-> price, tokens |-> <<>>]

OkList(data) == [outcome |-> "response", status |-> 200, body |-> "list", symbol |-> <<>>, price |-> NoPrice, tokens |-> data]

OkChart(price) == [outcome |-> "response", status |-> 200, body |-> "chart", symbol |-> <<>>, price |-> price, tokens |-> <<>>]

---------------------------------------------------------------------------
(* The handlers *)

\* The match of lines 56-64.
CoinMarketCapBasePrice(symbol) ==
    CASE symbol = S_ETH -> BigDecimalFrom(200)
      [] symbol = S_wBTC -> BigDecimalFrom(9000)
      [] symbol = S_BAT -> BigDecimalTryFromF64(F64Tenths(2))
      [] symbol = S_DAI -> BigDecimalFrom(1)
      [] symbol = S_tGLM -> BigDecimalFrom(1)
      [] symbol = S_GLM -> BigDecimalFrom(1)
      [] OTHER -> BigDecimalFrom(0)

\* A faulty variant of the coingecko table: unknown ids are priced 0.
CoinGeckoBasePriceZeroDefault(coin_id) ==
    CASE coin_id = S_ethereum -> BigDecimalFrom(200)
      [] coin_id = S_wrapped_bitcoin -> BigDecimalFrom(9000)
      [] coin_id = S_basic_attention_token -> BigDecimalTryFromF64(F64Tenths(2))
      [] OTHER -> BigDecimalFrom(0)

\* The match of lines 131-136 (coin_id is always Some: the route has it).
CoinGeckoBasePrice(coin_id) ==
    CASE coin_id = S_ethereum -> BigDecimalFrom(200)
      [] coin_id = S_wrapped_bitcoin -> BigDecimalFrom(9000)
      [] coin_id = S_basic_attention_token -> BigDecimalTryFromF64(F64Tenths(2))
      [] OTHER -> BigDecimalFrom(1)

\* A faulty variant of the price formula: the jitter is added twice.
PriceDoubleJitter(base_price, random_multiplier) ==
    BigDecimalMul(BigDecimalMul(base_price, BigDecimalTryFromF64(random_multiplier)), BigDecimalTryFromF64(random_multiplier))

\* base_price * BigDecimal::try_from(random_multiplier).unwrap()
Price(base_price, random_multiplier) ==
    BigDecimalMul(base_price, BigDecimalTryFromF64(random_multiplier))

handle_coinmarketcap_token_price_query(symbol, random_multiplier) ==
    OkQuote(symbol, Price(CoinMarketCapBasePrice(symbol), random_multiplier))

\* The file is read by the handler, at every request.
handle_coingecko_token_list(f) ==
    IF LoadTokensOk(f) THEN OkList(load_tokens(f)) ELSE Panicked

handle_coingecko_token_price_query(coin_id, random_multiplier) ==
    OkChart(Price(CoinGeckoBasePrice(coin_id), random_multiplier))

---------------------------------------------------------------------------
(* Routing *)

RouteQuotes == "/cryptocurrency/quotes/latest"

RouteList == "/api/v3/coins/list"

RouteChart == "/api/v3/coins/{coin_id}/market_chart"

Routes == {RouteQuotes, RouteList, RouteChart}

\* The handler each route is given.
HandlerOf(route) ==
    CASE route = RouteQuotes -> "handle_coinmarketcap_token_price_query"
      [] route = RouteList -> "handle_coingecko_token_list"
      [] route = RouteChart -> "handle_coingecko_token_price_query"

\* A faulty variant of main_scope: the list route is wrapped in either mode.
MainScopeListAlwaysSloppy(sloppy_mode) ==
    [route \in Routes |-> [handler |-> HandlerOf(route), sloppy |-> (sloppy_mode \/ route = RouteList)]]

\* main_scope(sloppy_mode): every route, wrapped by make_sloppy! or not.
main_scope(sloppy_mode) ==
    [route \in Routes |-> [handler |-> HandlerOf(route), sloppy |-> sloppy_mode]]

\* $f(query).await: the call of the handler h.
Invoke(h, key, random_multiplier, f) ==
    CASE h = "handle_coinmarketcap_token_price_query" -> handle_coinmarketcap_token_price_query(key, random_multiplier)
      [] h = "handle_coingecko_token_list" -> handle_coingecko_token_list(f)
      [] h = "handle_coingecko_token_price_query" -> handle_coingecko_token_price_query(key, random_multiplier)

---------------------------------------------------------------------------
(* The state *)

Requests == 1..NumRequests

\* A free request slot.  draw1 and draw2 keep the values make_sloppy! drew
\* (-1: not drawn), duration the chosen delay in ms (0: none), calls the
\* number of calls of the wrapped handler, hres what the handler returned.
IdleReq == [pc |-> "idle", route |-> "", key |-> <<>>, draw1 |-> -1, draw2 |-> -1, duration |-> 0, calls |-> 0, hres |-> NoResponse, resp |-> NoResponse]

\* FeeTickerOpts::from_args(): the flag --sloppy, absent by default.
FeeTickerOptsFromArgs(args) == [sloppy |-> (\E i \in 1..Len(args) : args[i] = "--sloppy")]

\* No routes before the App is built.
NoScope == << >>

---------------------------------------------------------------------------
(* make_sloppy! *)

\* The percentage of errored requests (line 25).
ErrorPercent == 5

\* The upper end of both gen_range(0, 100) draws.
DrawRange == 100

\* The last draws of the 100 ms and of the 5 s bucket (lines 31-32).
Bucket100Last == 59

Bucket5000Last == 69

\* gen_range(100, 1000) of line 34.
MsLow == 100

MsHigh == 1000

\* A faulty variant of the error test: draws up to 5 are errored.
SloppyErroredOffByOne(d1) == d1 <= ErrorPercent

\* thread_rng().gen_range(0, 100) < 5
SloppyErrored(d1) == d1 < ErrorPercent

\* A faulty variant of the match: the 5 s bucket ends at 70.
SloppyDurationWideBucket(d2, ms) ==
    CASE d2 \in 0..Bucket100Last -> 100
      [] d2 \in (Bucket100Last + 1)..(Bucket5000Last + 1) -> 5 * 1000
      [] OTHER -> ms

\* The match of lines 30-37, in milliseconds (ms is the draw of line 34).
SloppyDuration(d2, ms) ==
    CASE d2 \in 0..Bucket100Last -> 100
      [] d2 \in (Bucket100Last + 1)..Bucket5000Last -> 5 * 1000
      [] OTHER -> ms

\* A faulty variant of the delay: a sleep that blocks the worker, so that no other
\* request is polled while one sleeps.
PollableBlockingSleep(r) == \A q \in Requests \ {r} : req[q].pc # "delaying"

\* tokio::time::delay_for(duration).await suspends the task of the request
\* only: the worker polls every other task meanwhile.
Pollable(r) == TRUE

---------------------------------------------------------------------------
(* main *)

\* let opts = FeeTickerOpts::from_args();
MainParseArgs ==
    /\ mainPc = "start"
    /\ opts' = FeeTickerOptsFromArgs(argv)
    /\ mainPc' = "parsed"
    /\ UNCHANGED <<argv, scope, file, req>>

\* HttpServer::new(.. main_scope(opts.sloppy) ..).bind(..).unwrap().run()
MainServe ==
    /\ mainPc = "parsed"
    /\ scope' = main_scope(opts.sloppy)
    /\ mainPc' = "serving"
    /\ UNCHANGED <<argv, opts, file, req>>

\* bind("0.0.0.0:9876") fails (the port is taken): unwrap panics.
MainBindFail ==
    /\ mainPc = "parsed"
    /\ mainPc' = "crashed"
    /\ UNCHANGED <<argv, opts, scope, file, req>>

---------------------------------------------------------------------------
(* Requests *)

\* A GET request arrives and is routed; keys[route] are the keys it may ask.
Receive(r, routes, keys) ==
    /\ mainPc = "serving"
    /\ req[r].pc = "idle"
    /\ \E route \in routes : \E key \in keys[route] :
          req' = [req EXCEPT ![r] = [IdleReq EXCEPT !.pc = "received", !.route = route, !.key = key]]
    /\ UNCHANGED <<argv, mainPc, opts, scope, file>>

\* A route that is not wrapped: the handler is called directly.
HandleDirect(r, J) ==
    /\ mainPc = "serving"
    /\ req[r].pc = "received"
    /\ ~scope[req[r].route].sloppy
    /\ Pollable(r)
    /\ \E random_multiplier \in J :
          LET out == Invoke(scope[req[r].route].handler, req[r].key, random_multiplier, file)
          IN  req' = [req EXCEPT ![r].pc = "done", ![r].calls = @ + 1, ![r].hres = out, ![r].resp = out]
    /\ UNCHANGED <<argv, mainPc, opts, scope, file>>

\* make_sloppy!, lines 25-44: the request is errored, or its delay starts.
MakeSloppy(r, D1, D2, MS) ==
    /\ mainPc = "serving"
    /\ req[r].pc = "received"
    /\ scope[req[r].route].sloppy
    /\ Pollable(r)
    /\ \E d1 \in D1 :  \* ms is drawn in the last arm of the match only
          IF SloppyErrored(d1)
          THEN req' = [req EXCEPT ![r].pc = "done", ![r].draw1 = d1, ![r].resp = InternalServerError]
          ELSE \E d2 \in D2 : \E ms \in (IF d2 \in 0..Bucket5000Last THEN {0} ELSE MS) :
                  req' = [req EXCEPT ![r].pc = "delaying", ![r].draw1 = d1, ![r].draw2 = d2,
                                     ![r].duration = SloppyDuration(d2, ms)]
    /\ UNCHANGED <<argv, mainPc, opts, scope, file>>

\* make_sloppy!, lines 44-47: the delay is over, the handler is called and
\* its result returned.
Wake(r, J) ==
    /\ mainPc = "serving"
    /\ req[r].pc = "delaying"
    /\ Pollable(r)
    /\ \E random_multiplier \in J :
          LET out == Invoke(scope[req[r].route].handler, req[r].key, random_multiplier, file)
          IN  req' = [req EXCEPT ![r].pc = "done", ![r].calls = @ + 1, ![r].hres = out, ![r].resp = out]
    /\ UNCHANGED <<argv, mainPc, opts, scope, file>>

\* The response is sent (or the connection dropped); the slot is free again.
Complete(r) ==
    /\ req[r].pc = "done"
    /\ req' = [req EXCEPT ![r] = IdleReq]
    /\ UNCHANGED <<argv, mainPc, opts, scope, file>>

\* The environment rewrites, removes or corrupts the catalog file.
FileChange(files) ==
    /\ \E f \in files \ {file} : file' = f
    /\ UNCHANGED <<argv, mainPc, opts, scope, req>>

---------------------------------------------------------------------------
(* Inputs *)

S_MLTT == <<"M","L","T","T">>
S_mltt == <<"m","l","t","t">>
S_Eth == <<"E","t","h">>
S_dai == <<"d","a","i">>
S_glm == <<"g","l","m">>
S_tglm == <<"t","g","l","m">>
S_Address == <<"0","x","A","b","C","d">>

\* A catalog entry with both fields, strings.
Entry(symbol) == [symbol |-> JsonString(symbol), address |-> JsonString(S_Address)]

\* The symbols a request of /cryptocurrency/quotes/latest may ask (the table's,
\* a table symbol in another case, an unknown one) and the ids a request of
\* /api/v3/coins/{coin_id}/market_chart may ask.
AllKeys ==
    [route \in Routes |->
        CASE route = RouteQuotes -> {S_ETH, S_wBTC, S_BAT, S_DAI, S_tGLM, S_GLM, S_eth, S_MLTT}
          [] route = RouteList -> {<< >>}
          [] route = RouteChart -> {S_ethereum, S_wrapped_bitcoin, S_basic_attention_token, S_dai, S_glm, S_tglm, S_mltt}]

\* Every f64 the jitter draw can return.
AllJitter == GenRangeF64

\* Every value of the integer draws.
AllDraws == GenRange(0, DrawRange)

AllMs == GenRange(MsLow, MsHigh)

\* The catalog files of at most MaxTokens entries over a few symbols and
\* field shapes.
FieldValues(strs) == {JsonString(x) : x \in strs} \cup {JsonNumber, JsonAbsent}

AllEntries ==
    [symbol : FieldValues({S_ETH, S_Eth, S_wBTC, S_BAT, S_DAI, S_GLM, S_tGLM, S_MLTT}),
     address : {JsonString(S_Address), JsonAbsent}]

SeqsUpTo(S, n) == UNION { [1..k -> S] : k \in 0..n }

AllFiles == {FileMissing, FileMalformed} \cup { FileJson(es) : es \in SeqsUpTo(AllEntries, MaxTokens) }

\* Samples of the inputs, for the runs of several concurrent requests (the
\* whole ranges are run one request at a time): one key per price route, a
\* jitter at the end of its range, both sides of the error test, one draw
\* per delay bucket, a missing and two valid catalog files.
SampleKeys ==
    [route \in Routes |->
        CASE route = RouteQuotes -> {S_ETH}
          [] route = RouteList -> {<< >>}
          [] route = RouteChart -> {S_mltt}]

SampleJitter == {F64Tenths(11) - 1}

SampleDraws1 == {ErrorPercent - 1, ErrorPercent}

SampleDraws2 == {Bucket100Last, Bucket5000Last, DrawRange - 1}

BoundaryDraws == {0, ErrorPercent - 1, ErrorPercent, Bucket100Last, Bucket100Last + 1, Bucket5000Last, Bucket5000Last + 1, DrawRange - 1}

SampleMs == {MsHigh - 1}

SampleFiles ==
    {FileMissing,
     FileJson(<<Entry(S_ETH)>>),
     FileJson(<<Entry(S_ETH), Entry(S_DAI)>>)}

---------------------------------------------------------------------------
(* The server, from process start, with NumRequests requests in flight *)

Init ==
    /\ argv \in {<< >>, <<"--sloppy">>}
    /\ mainPc = "start"
    /\ opts = [sloppy |-> FALSE]
    /\ scope = NoScope
    /\ file \in SampleFiles
    /\ req = [r \in Requests |-> IdleReq]

Next ==
    \/ MainParseArgs
    \/ MainServe
    \/ MainBindFail
    \/ \E r \in Requests : Receive(r, Routes, SampleKeys)
    \/ \E r \in Requests : HandleDirect(r, SampleJitter)
    \/ \E r \in Requests : MakeSloppy(r, SampleDraws1, SampleDraws2, SampleMs)
    \/ \E r \in Requests : Wake(r, SampleJitter)
    \/ \E r \in Requests : Complete(r)
    \/ FileChange(SampleFiles)

Spec == Init /\ [][Next]_vars

---------------------------------------------------------------------------
(* One request at a time, from process start, with every value of the      *)
(* first draw of make_sloppy!                                              *)

InitSloppy ==
    /\ argv \in {<< >>, <<"--sloppy">>}
    /\ mainPc = "start"
    /\ opts = [sloppy |-> FALSE]
    /\ scope = NoScope
    /\ file \in {FileMissing, FileJson(<<Entry(S_ETH)>>)}
    /\ req = [r \in Requests |-> IdleReq]

NextSloppy ==
    \/ MainParseArgs
    \/ MainServe
    \/ MainBindFail
    \/ Receive(1, Routes, SampleKeys)
    \/ HandleDirect(1, SampleJitter)
    \/ MakeSloppy(1, AllDraws, BoundaryDraws, SampleMs)
    \/ Wake(1, SampleJitter)
    \/ Complete(1)

SpecSloppy == InitSloppy /\ [][NextSloppy]_vars

---------------------------------------------------------------------------
(* The delay of make_sloppy!, with every value of the second draw and of   *)
(* the millisecond draw                                                    *)

\* The state of a server that main has started with the arguments args.
Serving(args, f) ==
    /\ argv = args
    /\ mainPc = "serving"
    /\ opts = FeeTickerOptsFromArgs(args)
    /\ scope = main_scope(FeeTickerOptsFromArgs(args).sloppy)
    /\ file = f
    /\ req = [r \in Requests |-> IdleReq]

InitDelay == Serving(<<"--sloppy">>, FileJson(<<Entry(S_ETH)>>))

NextDelay ==
    \/ Receive(1, {RouteList}, AllKeys)
    \/ MakeSloppy(1, SampleDraws1, AllDraws, AllMs)
    \/ Wake(1, SampleJitter)
    \/ Complete(1)

SpecDelay == InitDelay /\ [][NextDelay]_vars

---------------------------------------------------------------------------
(* The two price handlers, with every key and every value of the jitter    *)

InitPrice == \E args \in {<< >>, <<"--sloppy">>} : Serving(args, FileJson(<<Entry(S_ETH)>>))

NextPrice ==
    \/ Receive(1, {RouteQuotes, RouteChart}, AllKeys)
    \/ HandleDirect(1, AllJitter)
    \/ MakeSloppy(1, SampleDraws1, SampleDraws2, SampleMs)
    \/ Wake(1, AllJitter)
    \/ Complete(1)

SpecPrice == InitPrice /\ [][NextPrice]_vars

---------------------------------------------------------------------------
(* The list handler, with every catalog file                               *)

InitCatalog == \E f \in AllFiles : Serving(<< >>, f)

NextCatalog ==
    \/ Receive(1, {RouteList}, AllKeys)
    \/ HandleDirect(1, SampleJitter)
    \/ Complete(1)

SpecCatalog == InitCatalog /\ [][NextCatalog]_vars

---------------------------------------------------------------------------
(* Properties *)

\* The decimal p lies in [lo/den, hi/den].
Within(p, lo, hi, den) ==
    /\ lo * (10 ^ p.scale) <= den * p.int_val
    /\ den * p.int_val <= hi * (10 ^ p.scale)

\* The base prices as the documentation states them, as fractions num/den.
DocBase(route, key) ==
    IF route = RouteQuotes
    THEN CASE key = S_ETH -> [num |-> 200, den |-> 1]
           [] key = S_wBTC -> [num |-> 9000, den |-> 1]
           [] key = S_BAT -> [num |-> 2, den |-> 10]
           [] key \in {S_DAI, S_GLM, S_tGLM} -> [num |-> 1, den |-> 1]
           [] OTHER -> [num |-> 0, den |-> 1]
    ELSE CASE key = S_ethereum -> [num |-> 200, den |-> 1]
           [] key = S_wrapped_bitcoin -> [num |-> 9000, den |-> 1]
           [] key = S_basic_attention_token -> [num |-> 2, den |-> 10]
           [] key \in {S_dai, S_glm, S_tglm} -> [num |-> 1, den |-> 1]
           [] OTHER -> [num |-> 0, den |-> 1]

\* The keys with a non-zero base price that C1 names.
C1Keys(route) ==
    IF route = RouteQuotes THEN {S_ETH, S_wBTC, S_BAT, S_DAI, S_GLM, S_tGLM}
    ELSE IF route = RouteChart THEN {S_ethereum, S_wrapped_bitcoin, S_basic_attention_token}
    ELSE {}

\* A request that was answered 200 by a price handler.
Priced(q) == q.pc = "done" /\ q.resp.status = 200 /\ q.resp.body \in {"quote", "chart"}

\* C1: for every key with a non-zero base price B and every jitter draw, the
\* price of a successful response lies in [0.9*B, 1.1*B]; ETH lies in
\* [180, 220], wrapped-bitcoin in [8100, 9900]; no price is negative.
C1_PriceWithinTenPercent ==
    \A r \in Requests :
        LET q == req[r]
            B == DocBase(q.route, q.key)
        IN  Priced(q) =>
              /\ q.resp.price.int_val >= 0
              /\ q.key \in C1Keys(q.route) => Within(q.resp.price, 9 * B.num, 11 * B.num, 10 * B.den)
              /\ (q.route = RouteQuotes /\ q.key = S_ETH) => Within(q.resp.price, 180, 220, 1)
              /\ (q.route = RouteChart /\ q.key = S_wrapped_bitcoin) => Within(q.resp.price, 8100, 9900, 1)

\* C1's case: a quote of ETH at the upper end, 220 (a jitter just below 1.1
\* is rounded to 1.1 by the conversion to BigDecimal).
C1_Witness ==
    \E r \in Requests :
        /\ Priced(req[r]) /\ req[r].route = RouteQuotes /\ req[r].key = S_ETH
        /\ Within(req[r].resp.price, 220, 220, 1)

\* C2 (as stated): every key outside the base price table is answered with
\* price 0, by the symbol endpoint and by the id endpoint.
C2_UnknownKeysPricedZero ==
    \A r \in Requests :
        LET q == req[r]
        IN  (Priced(q) /\ DocBase(q.route, q.key).num = 0) => q.resp.price.int_val = 0

\* C3 (as stated): the server starts serving only with a catalog file that
\* loads.
C3_ServingOnlyWithValidCatalog ==
    [][(mainPc # "serving" /\ mainPc' = "serving") => LoadTokensOk(file)]_vars

\* A request that was answered by the list handler.
Listed(q) == q.pc = "done" /\ q.resp.status = 200 /\ q.resp.body = "list"

\* C4 (as stated): all successful responses of /api/v3/coins/list of one run
\* carry the same catalog.
C4_CatalogLoadedOnce ==
    \A r1, r2 \in Requests :
        (Listed(req[r1]) /\ Listed(req[r2])) => req[r1].resp.tokens = req[r2].resp.tokens

\* Lower case and canonical id of the catalog strings, as the documentation
\* states them (written out, not computed).
DocLower(s) ==
    CASE s \in {S_ETH, S_Eth, S_eth} -> S_eth
      [] s = S_wBTC -> S_wbtc
      [] s = S_BAT -> S_bat
      [] s = S_DAI -> S_dai
      [] s = S_GLM -> S_glm
      [] s = S_tGLM -> S_tglm
      [] s = S_MLTT -> S_mltt
      [] s = S_Address -> <<"0","x","a","b","c","d">>

DocId(s) ==
    CASE DocLower(s) = S_eth -> S_ethereum
      [] DocLower(s) = S_wbtc -> S_wrapped_bitcoin
      [] DocLower(s) = S_bat -> S_basic_attention_token
      [] OTHER -> DocLower(s)

\* A valid catalog file: a JSON array whose entries have a string symbol and
\* a string address.
DocValidCatalog(f) ==
    /\ f.kind = "json"
    /\ \A i \in 1..Len(f.entries) :
          f.entries[i].symbol.kind = "string" /\ f.entries[i].address.kind = "string"

\* C5: for every valid catalog file, /api/v3/coins/list returns one entry per
\* catalog entry, in catalog order, with symbol = the lower-cased symbol,
\* platforms = {"ethereum": lower-cased address} only, name = the (lower-cased)
\* symbol, and id = ethereum / wrapped-bitcoin / basic-attention-token for
\* eth / wbtc / bat in any case, the lower-cased symbol otherwise.
C5_CoinsListMatchesCatalog ==
    \A r \in Requests :
        LET q == req[r]
        IN  (q.pc = "done" /\ q.route = RouteList /\ DocValidCatalog(file)) =>
              /\ Listed(q)
              /\ Len(q.resp.tokens) = Len(file.entries)
              /\ \A i \in 1..Len(file.entries) :
                    LET e == file.entries[i]
                        t == q.resp.tokens[i]
                    IN  /\ t.symbol = DocLower(e.symbol.str)
                        /\ DOMAIN t.platforms = {"ethereum"}
                        /\ t.platforms.ethereum = DocLower(e.address.str)
                        /\ t.name = t.symbol /\ t.name = DocLower(e.symbol.str)
                        /\ t.id = DocId(e.symbol.str)

\* C5's case: a catalog of "ETH" and "Eth" is listed as two entries, both
\* with id "ethereum".
C5_Witness ==
    \E r \in Requests :
        /\ Listed(req[r])
        /\ Len(file.entries) = 2
        /\ file.entries[1].symbol.str = S_ETH
        /\ file.entries[2].symbol.str = S_Eth
        /\ req[r].resp.tokens[1].id = S_ethereum
        /\ req[r].resp.tokens[2].id = S_ethereum

\* C6: in sloppy mode, on every route, a request whose first draw is < 5 is
\* answered 500 with an empty body, without a call of the handler and
\* without a delay; any other request is delayed first (the handler has not
\* been called while the delay lasts), then the handler is called exactly
\* once and its result is the response.  There is no other outcome.
C6_SloppyOutcomes ==
    \A r \in Requests :
        LET q == req[r]
        IN  (mainPc = "serving" /\ opts.sloppy) =>
              /\ q.pc \in {"idle", "received", "delaying", "done"}
              /\ q.pc \in {"idle", "received"} => (q.calls = 0 /\ q.resp = NoResponse /\ q.duration = 0)
              /\ q.pc = "delaying" =>
                    (q.draw1 \in 5..99 /\ q.calls = 0 /\ q.resp = NoResponse /\ q.duration > 0)
              /\ q.pc = "done" =>
                    /\ q.draw1 \in 0..99
                    /\ q.draw1 < 5 =>
                          (q.resp = InternalServerError /\ q.resp.status = 500 /\ q.resp.body = "empty"
                             /\ q.calls = 0 /\ q.duration = 0)
                    /\ q.draw1 >= 5 =>
                          (q.calls = 1 /\ q.duration > 0 /\ q.hres.outcome # "none" /\ q.resp = q.hres)

\* C6's case: a request of sloppy mode with first draw 5 was delayed 5 s and
\* then answered by its handler.
C6_Witness ==
    \E r \in Requests :
        /\ opts.sloppy /\ req[r].pc = "done" /\ req[r].draw1 = 5
        /\ req[r].duration = 5000 /\ req[r].calls = 1 /\ req[r].resp.status = 200

\* C7: the delay of a request that is not errored is a function of the
\* second draw d: 100 ms for d in 0..59, 5000 ms for d in 60..69, and m ms
\* with 100 <= m < 1000 for d in 70..99; every delay is in [100, 1000) or
\* is 5000 ms.
C7_DelayBuckets ==
    \A r \in Requests :
        LET q == req[r]
        IN  (q.pc \in {"delaying", "done"} /\ q.draw1 >= 5) =>
              /\ q.draw2 \in 0..99
              /\ q.draw2 \in 0..59 => q.duration = 100
              /\ q.draw2 \in 60..69 => q.duration = 5000
              /\ q.draw2 \in 70..99 => (100 <= q.duration /\ q.duration < 1000)
              /\ (q.duration \in 100..999 \/ q.duration = 5000)

\* C7's case: the second draw is 70, the first of the random bucket, and the
\* delay is 999 ms.
C7_Witness ==
    \E r \in Requests : req[r].pc = "delaying" /\ req[r].draw2 = 70 /\ req[r].duration = 999

\* C8: without --sloppy no route is wrapped, whatever happens while the
\* server runs; no request is delayed or errored by the fault injector and
\* every handler is called directly; with --sloppy every route is wrapped.
C8_NoFaultInjectionWhenDisabled ==
    LET flag == \E i \in 1..Len(argv) : argv[i] = "--sloppy"
    IN  mainPc = "serving" =>
          /\ \A route \in Routes : scope[route].sloppy = flag
          /\ ~flag =>
                \A r \in Requests :
                    LET q == req[r]
                    IN  /\ q.pc # "delaying"
                        /\ q.duration = 0
                        /\ q.draw1 = -1 /\ q.draw2 = -1
                        /\ q.resp.status # 500
                        /\ q.pc = "done" => (q.calls = 1 /\ q.resp = q.hres /\ q.hres.outcome # "none")

\* C8's case: a server started without flags has answered a request.
C8_Witness ==
    \E r \in Requests :
        /\ argv = << >> /\ mainPc = "serving"
        /\ req[r].pc = "done" /\ req[r].route = RouteList /\ req[r].resp.status = 200

\* The step of request r, whatever it is.
StepOf(r) ==
    \/ Receive(r, Routes, SampleKeys)
    \/ HandleDirect(r, SampleJitter)
    \/ MakeSloppy(r, SampleDraws1, SampleDraws2, SampleMs)
    \/ Wake(r, SampleJitter)
    \/ Complete(r)

\* While a request is suspended in its delay, every other request can take
\* its next step (be received, handled, woken, answered).
C9_OthersCanStep ==
    \A r1, r2 \in Requests :
        (r1 # r2 /\ req[r1].pc = "delaying") => ENABLED StepOf(r2)

\* A step of a request changes the state of that request only: neither the
\* state of another request nor the server's.
C9_StepsTouchOneRequest ==
    \A r \in Requests :
        req'[r] # req[r] =>
          /\ \A q \in Requests \ {r} : req'[q] = req[q]
          /\ argv' = argv /\ mainPc' = mainPc /\ opts' = opts /\ scope' = scope /\ file' = file

C10_EndpointsAgreeOnBasePrices ==
    \A r \in Requests :
        LET q == req[r]
        IN  Listed(q) =>
              \A i \in 1..Len(q.resp.tokens) :
                  LET symbol == file.entries[i].symbol.str
                      B == DocBase(RouteQuotes, symbol)
                  IN  symbol \in {S_ETH, S_wBTC, S_BAT, S_DAI, S_GLM, S_tGLM} =>
                        /\ BigDecimalEq(CoinMarketCapBasePrice(symbol), CoinGeckoBasePrice(q.resp.tokens[i].id))
                        /\ Within(CoinGeckoBasePrice(q.resp.tokens[i].id), B.num, B.num, B.den)

\* C10's case: the catalog entry DAI is listed with id "dai".
C10_Witness ==
    \E r \in Requests : \E i \in 1..Len(req[r].resp.tokens) :
        /\ Listed(req[r])
        /\ file.entries[i].symbol.str = S_DAI
        /\ req[r].resp.tokens[i].id = S_dai

=============================================================================
